---- MODULE Spec2Model ----
(***************************************************************************)
(* Momentum / vol-target pair-trading engine (src/src/bot.py) and its      *)
(* offline replay (src/src/backtest.py).                                   *)
(*                                                                         *)
(* Number representation (the source computes in IEEE doubles; the model   *)
(* uses fixed point, the unit is stated with each definition):             *)
(*   prices, cash, valuations, notionals : integer currency units          *)
(*   returns, momentum, volatility       : basis points (1/RetScale)       *)
(*   dd_stop, target_vol_annual          : basis points                    *)
(*   thresh                              : tenths                          *)
(*   max_gross, rebalance_band           : percent                         *)
(* An optional value (Python None / a missing dict key) is the empty       *)
(* sequence, a present value x is <<x>>.                                   *)
(* Two scores that agree to within the fixed-point resolution without      *)
(* being computed from identical returns are ordered by the rounding of    *)
(* the doubles; the model takes that order as an input (`noise`).          *)
(***************************************************************************)
EXTENDS Integers, Sequences, FiniteSets, TLC

VARIABLES
  bot,            \* the Bot instance (configuration and StrategyState)
  tick,           \* the argument of the last on_tick call (or of the operation applied)
  out,            \* what the last call did (orders, exception, return point; signal, targets)
  cash,           \* run_backtest: ledger cash
  positions,      \* run_backtest: ledger positions
  nb_trades,      \* run_backtest: executed order count
  valuations,     \* run_backtest: post-trade valuations
  pending_orders, \* run_backtest: orders captured on the current period
  pc,             \* "idle" (no replay) | "loop" | "raised" | "returned" | "RuntimeError";
                  \* "call" | "rebalanced" | "rebalanced_again" | "flattened" (trading ops);
                  \* "signal" | "sizing" | "sized" (signal and sizing)
                  \* "metrics" (a valuation path to be measured);
                  \* "simulation" (a live session of Simulation.py)
  live,           \* a second, unpatched Bot fed the ticks of the replay (or None)
  transmitted,    \* the orders that Bot's post_order transmitted on the current tick
  twin,           \* a second run_backtest call on the same series (or None)
  sim             \* Simulation.py: the module globals and its threads (or None)

vars == <<bot, tick, out, cash, positions, nb_trades, valuations, pending_orders, pc,
         live, transmitted, twin, sim>>

---------------------------------------------------------------------------
(* Bounds of the model *)

\* number of on_tick calls in a live run
MaxTicks == 4
\* number of rows of the replayed price series
MaxPeriods == 6
\* momentum window of the bounded configurations (the default is 20)
MomWindow == 2
\* volatility window of the bounded configurations (the default is 40)
VolWindow == 2
\* rows of the end-to-end series
ScenarioPeriods == 300
\* momentum and volatility window of the end-to-end run
ScenarioWindow == 20
\* rows of the series replayed twice
TwinPeriods == 4
\* length of the valuation paths given to the drawdown metric
PathLen == 4
\* ticks of a live run that fills the histories (capacity max(mom, vol) + 5 = 7)
HistoryTicks == 9
\* websocket messages received in a live session
SimMessages == 3

---------------------------------------------------------------------------
(* Program constants *)

\* returns are kept in basis points
RetScale == 10000
\* _last_order_tick = -10**9
NeverOrdered == -1000000000
\* s < 1e-8 : below the fixed-point resolution, i.e. the smallest positive value
VolFloor == 1
\* math.sqrt(252), in thousandths
Sqrt252Milli == 15875
\* RF_ANNUAL = 0.0193, in 1/10000
RfAnnualE4 == 193
\* trading days per year in RF_DAILY = RF_ANNUAL / 252
TradingDays == 252
\* INITIAL_CAPITAL
INITIAL_CAPITAL == 100000

Symbols == {"MERI", "TIS"}
None == <<>>
Some(x) == <<x>>
Val(o) == o[1]

Abs(x) == IF x < 0 THEN -x ELSE x
Min(a, b) == IF b < a THEN b ELSE a
Max(a, b) == IF b > a THEN b ELSE a
\* Python int(x / y) for y > 0: truncation toward zero
Trunc(x, y) == IF x >= 0 THEN x \div y ELSE -((-x) \div y)

RECURSIVE ISqrtBetween(_, _, _)
ISqrtBetween(x, lo, hi) ==
  IF lo >= hi THEN lo
  ELSE LET mid == (lo + hi + 1) \div 2
       IN IF mid * mid <= x THEN ISqrtBetween(x, mid, hi)
          ELSE ISqrtBetween(x, lo, mid - 1)
\* floor of the square root
ISqrt(x) == ISqrtBetween(x, 0, Min(x, 46340))

RECURSIVE SumSeq(_)
SumSeq(s) == IF s = <<>> THEN 0 ELSE Head(s) + SumSeq(Tail(s))

---------------------------------------------------------------------------
(* Bot: construction *)

\* Bot.__init__: the configuration, two empty bounded histories, StrategyState
Bot(kw) ==
  [ mom |-> kw.mom, vol |-> kw.vol, thresh |-> kw.thresh,
    max_gross |-> kw.max_gross, target_vol_annual |-> kw.target_vol_annual,
    dd_stop |-> kw.dd_stop, min_trade_qty |-> kw.min_trade_qty,
    short |-> kw.short, rebalance_band |-> kw.rebalance_band,
    cooldown_ticks |-> kw.cooldown_ticks,
    maxlen |-> Max(kw.mom, kw.vol) + 5,
    prices |-> [MERI |-> <<>>, TIS |-> <<>>],
    max_valuation |-> None,
    risk_off |-> FALSE,
    _tick_count |-> 0,
    _last_order_tick |-> NeverOrdered,
    post_order |-> "Bot.post_order" ]

\* variant: a list that grows without bound
ListAppend(d, x, maxlen) == Append(d, x)

\* deque(maxlen=n).append
DequeAppend(d, x, maxlen) ==
  IF Len(d) >= maxlen THEN Append(Tail(d), x) ELSE Append(d, x)

Order(symbol, action, quantity) ==
  [symbol |-> symbol, action |-> action, quantity |-> quantity]

\* the running context of one on_tick call: the instance, the orders handed to
\* the sink, those the sink accepted, and whether an exception is propagating
Ctx(b) == [bot |-> b, posted |-> <<>>, placed |-> <<>>, raised |-> FALSE,
           near_tie |-> FALSE]

---------------------------------------------------------------------------
(* Bot: I/O *)

\* variant: no quantity guard before the cooldown and the request
PostOrderUnguarded(c, symbol, action, quantity, resp) ==
  IF c.bot._tick_count - c.bot._last_order_tick < c.bot.cooldown_ticks THEN c
  ELSE LET r == resp[Len(c.posted) + 1]
           sent == [c EXCEPT !.posted = Append(@, Order(symbol, action, quantity))]
       IN IF r = "error" THEN [sent EXCEPT !.raised = TRUE]
          ELSE IF r = "200"
               THEN [sent EXCEPT !.placed = Append(@, Order(symbol, action, quantity)),
                                 !.bot._last_order_tick = c.bot._tick_count]
               ELSE sent

\* variant: the cooldown slot is taken before the request is made
PostOrderClaimingSlot(c, symbol, action, quantity, resp) ==
  IF quantity <= 0 THEN c
  ELSE IF c.bot._tick_count - c.bot._last_order_tick < c.bot.cooldown_ticks THEN c
  ELSE LET r == resp[Len(c.posted) + 1]
           sent == [c EXCEPT !.posted = Append(@, Order(symbol, action, quantity)),
                             !.bot._last_order_tick = c.bot._tick_count]
       IN IF r = "error" THEN [sent EXCEPT !.raised = TRUE]
          ELSE IF r = "200"
               THEN [sent EXCEPT !.placed = Append(@, Order(symbol, action, quantity))]
               ELSE sent

\* Bot.post_order: quantity guard, global cooldown, requests.post, and the
\* cooldown slot taken only on status 200.  resp[i] is the venue's answer to
\* the i-th request of this tick: "200", "rejected" (another status) or
\* "error" (requests.post raises).
post_order(c, symbol, action, quantity, resp) ==
  IF quantity <= 0 THEN c
  ELSE IF c.bot._tick_count - c.bot._last_order_tick < c.bot.cooldown_ticks THEN c
  ELSE LET r == resp[Len(c.posted) + 1]
           sent == [c EXCEPT !.posted = Append(@, Order(symbol, action, quantity))]
       IN IF r = "error" THEN [sent EXCEPT !.raised = TRUE]
          ELSE IF r = "200"
               THEN [sent EXCEPT !.placed = Append(@, Order(symbol, action, quantity)),
                                 !.bot._last_order_tick = c.bot._tick_count]
               ELSE sent

\* variant: the recording sink appends whatever it is given
FakePostOrderUnguarded(c, symbol, action, quantity) ==
  [c EXCEPT !.posted = Append(@, Order(symbol, action, quantity)),
            !.placed = Append(@, Order(symbol, action, quantity))]

\* run_backtest.fake_post_order: quantity guard, then pending_orders.append
fake_post_order(c, symbol, action, quantity) ==
  IF quantity <= 0 THEN c
  ELSE [c EXCEPT !.posted = Append(@, Order(symbol, action, quantity)),
                 !.placed = Append(@, Order(symbol, action, quantity))]

\* self.post_order(...): the instance attribute (monkey-patched by run_backtest)
\* shadows the method; nothing runs once an exception is propagating
call_post_order(c, symbol, action, quantity, resp) ==
  IF c.raised THEN c
  ELSE IF c.bot.post_order = "fake_post_order"
       THEN fake_post_order(c, symbol, action, quantity)
       ELSE post_order(c, symbol, action, quantity, resp)

---------------------------------------------------------------------------
(* Bot: tick normalisation *)

\* marketData is [shape |-> "dict", items |-> symbol -> item],
\* [shape |-> "list", items |-> <<item, ...>>] or [shape |-> "none"];
\* an item is a record that may lack "symbol" and may lack "close".
RECURSIVE ListToDict(_, _)
ListToDict(items, acc) ==
  IF items = <<>> THEN acc
  ELSE LET item == Head(items)
       IN IF "symbol" \in DOMAIN item
          THEN ListToDict(Tail(items),
                 [k \in DOMAIN acc \cup {item.symbol} |->
                    IF k = item.symbol THEN item ELSE acc[k]])
          ELSE ListToDict(Tail(items), acc)

_normalize_market_data(md) ==
  IF md.shape = "dict" THEN md.items
  ELSE IF md.shape = "list" THEN ListToDict(md.items, <<>>)
  ELSE <<>>

\* portfolio.get(k) or {}
GetOrEmpty(portfolio, k) == IF k \in DOMAIN portfolio THEN portfolio[k] ELSE <<>>

\* Bot._net_positions: long lots minus short lots, per symbol
_net_positions(portfolio) ==
  LET longs == GetOrEmpty(portfolio, "positions")
      shorts == GetOrEmpty(portfolio, "shortPositions")
  IN [sym \in DOMAIN longs \cup DOMAIN shorts |->
        (IF sym \in DOMAIN longs THEN longs[sym] ELSE 0)
        - (IF sym \in DOMAIN shorts THEN shorts[sym] ELSE 0)]

\* pos.get(sym, 0)
GetPos(pos, sym) == IF sym \in DOMAIN pos THEN pos[sym] ELSE 0

---------------------------------------------------------------------------
(* Bot: indicators (basis points) *)

\* p[i+1] / p[i] - 1.0
SimpleReturn(p0, p1) == (p1 * RetScale) \div p0 - RetScale

\* the last `window` simple returns of the history
LastReturns(prices, window) ==
  LET n == Len(prices)
  IN [i \in 1..window |-> SimpleReturn(prices[n - window + i - 1], prices[n - window + i])]

\* np.std(r, ddof=1): sqrt( sum (r_i - mean)^2 / (n - 1) ), computed as
\* sqrt( sum (n r_i - S)^2 / (n^2 (n - 1)) ); undefined (nan) for n = 1
StdDdof1(r) ==
  LET n == Len(r)
      S == SumSeq(r)
      d2 == [i \in 1..n |-> (n * r[i] - S) * (n * r[i] - S)]
  IN IF n < 2 THEN None ELSE Some(ISqrt(SumSeq(d2) \div (n * n * (n - 1))))

\* variant: a deviation under the floor is raised to the floor
RollingVolClamped(prices, window) ==
  IF Len(prices) < window + 1 THEN None
  ELSE LET s == StdDdof1(LastReturns(prices, window))
       IN IF s = None THEN None ELSE Some(Max(Val(s), VolFloor))

\* variant: the standard deviation is returned whatever its size
RollingVolUnguarded(prices, window) ==
  IF Len(prices) < window + 1 THEN None
  ELSE StdDdof1(LastReturns(prices, window))

\* Bot._rolling_vol_from_prices
_rolling_vol_from_prices(prices, window) ==
  IF Len(prices) < window + 1 THEN None
  ELSE LET s == StdDdof1(LastReturns(prices, window))
       IN IF s = None \/ Val(s) < VolFloor THEN None ELSE s

\* variant: the guard compares with `window`, and the base of the return is
\* clamped to the oldest price there is
MomentumOverShortHistory(prices, window) ==
  IF Len(prices) < window THEN None
  ELSE Some(SimpleReturn(prices[Max(1, Len(prices) - window)], prices[Len(prices)]))

\* Bot._momentum
_momentum(prices, window) ==
  IF Len(prices) < window + 1 THEN None
  ELSE Some(SimpleReturn(prices[Len(prices) - window], prices[Len(prices)]))

---------------------------------------------------------------------------
(* Bot: trading ops *)

\* variant: the rebalance band is not applied
ShouldTradeWithoutBand(b, delta, target) ==
  Abs(delta) >= b.min_trade_qty

\* Bot._should_trade: minimum size, then close-out, then the rebalance band
\* (rebalance_band in percent)
_should_trade(b, delta, target) ==
  IF Abs(delta) < b.min_trade_qty THEN FALSE
  ELSE IF target = 0 THEN TRUE
  ELSE 100 * Abs(delta) >= b.rebalance_band * Abs(target)

\* variant: a rejected MERI order is sent a second time
RebalanceRetrying(c, cur_M, cur_T, tgt_M, tgt_T, resp) ==
  LET dM == tgt_M - cur_M
      dT == tgt_T - cur_T
      c1 == IF _should_trade(c.bot, dM, tgt_M)
            THEN call_post_order(c, "MERI", IF dM > 0 THEN "BUY" ELSE "SELL", Abs(dM), resp)
            ELSE c
  IN IF ~c1.raised /\ Len(c1.posted) = 1 /\ c1.placed = <<>>
     THEN call_post_order(c1, "MERI", IF dM > 0 THEN "BUY" ELSE "SELL", Abs(dM), resp)
     ELSE IF ~c1.raised /\ _should_trade(c1.bot, dT, tgt_T)
          THEN call_post_order(c1, "TIS", IF dT > 0 THEN "BUY" ELSE "SELL", Abs(dT), resp)
          ELSE c1

\* Bot._rebalance_to_targets: MERI first, then TIS
_rebalance_to_targets(c, cur_M, cur_T, tgt_M, tgt_T, resp) ==
  LET dM == tgt_M - cur_M
      dT == tgt_T - cur_T
      c1 == IF _should_trade(c.bot, dM, tgt_M)
            THEN call_post_order(c, "MERI", IF dM > 0 THEN "BUY" ELSE "SELL", Abs(dM), resp)
            ELSE c
  IN IF ~c1.raised /\ _should_trade(c1.bot, dT, tgt_T)
     THEN call_post_order(c1, "TIS", IF dT > 0 THEN "BUY" ELSE "SELL", Abs(dT), resp)
     ELSE c1

\* variant: only long positions are closed out
FlattenLongsOnly(c, cur_M, cur_T, resp) ==
  LET c1 == IF cur_M > 0 THEN call_post_order(c, "MERI", "SELL", cur_M, resp) ELSE c
  IN IF ~c1.raised /\ cur_T > 0 THEN call_post_order(c1, "TIS", "SELL", cur_T, resp) ELSE c1

\* Bot._flatten: MERI first, then TIS
_flatten(c, cur_M, cur_T, resp) ==
  LET c1 == IF cur_M # 0
            THEN call_post_order(c, "MERI", IF cur_M > 0 THEN "SELL" ELSE "BUY", Abs(cur_M), resp)
            ELSE c
  IN IF ~c1.raised /\ cur_T # 0
     THEN call_post_order(c1, "TIS", IF cur_T > 0 THEN "SELL" ELSE "BUY", Abs(cur_T), resp)
     ELSE c1

---------------------------------------------------------------------------
(* Bot: on_tick, by stage *)

\* what an on_tick call leaves behind; `at` is the statement it left from
Ret(c, at) ==
  [bot |-> c.bot, posted |-> c.posted, placed |-> c.placed, raised |-> c.raised,
   near_tie |-> c.near_tie, at |-> at]

\* tick.get("valuation", pf.get("cash", 0.0))
TickValuation(t) ==
  IF "valuation" \in DOMAIN t THEN t.valuation
  ELSE IF "portfolio" \in DOMAIN t /\ "cash" \in DOMAIN t.portfolio THEN t.portfolio.cash
  ELSE 0

\* lines 185-187: the running peak
TrackPeak(b, valuation) ==
  IF b.max_valuation = None THEN valuation ELSE Max(Val(b.max_valuation), valuation)

\* lines 188-189: dd = (max_valuation - valuation) / max_valuation >= dd_stop,
\* "ZeroDivisionError" when the peak is 0 (dd_stop in basis points)
DrawdownStop(peak, valuation, dd_stop) ==
  IF peak = 0 THEN "ZeroDivisionError"
  ELSE IF peak > 0
       THEN (IF (peak - valuation) * RetScale >= dd_stop * peak THEN "stop" ELSE "ok")
       ELSE (IF (peak - valuation) * RetScale <= dd_stop * peak THEN "stop" ELSE "ok")

\* a_i = m_i / s_i is kept as the pair (m_i, s_i), s_i > 0.
\* The two scores differ by less than the rounding of m and s (one unit each)
NearTie(mA, sA, mB, sB) ==
  LET d == mA * sB - mB * sA
  IN d # 0 /\ Abs(d) <= Abs(mA) + sA + Abs(mB) + sB
\* a_A >= a_B; within the resolution the doubles' rounding (`noise`) decides
ScoreGe(mA, sA, mB, sB, noise) ==
  IF NearTie(mA, sA, mB, sB) THEN noise ELSE mA * sB >= mB * sA
\* a > thresh and a < -thresh (thresh in tenths)
ScoreAbove(m, s, thresh) == 10 * m > thresh * s
ScoreBelowNeg(m, s, thresh) == 10 * m < -(thresh * s)

\* variant: the short test comes before the long test
SignalShortFirst(b, mM, sM, mT, sT, noise) ==
  IF b.short /\ (ScoreBelowNeg(mM, sM, b.thresh) \/ ScoreBelowNeg(mT, sT, b.thresh))
  THEN [target_dir |-> -1,
        target_sym |-> IF ScoreGe(mT, sT, mM, sM, noise) THEN "MERI" ELSE "TIS"]
  ELSE IF ScoreAbove(mM, sM, b.thresh) \/ ScoreAbove(mT, sT, b.thresh)
  THEN [target_dir |-> 1,
        target_sym |-> IF ScoreGe(mM, sM, mT, sT, noise) THEN "MERI" ELSE "TIS"]
  ELSE [target_dir |-> 0, target_sym |-> "None"]

\* variant: the short leg does not look at the `short` flag
SignalIgnoringShortFlag(b, mM, sM, mT, sT, noise) ==
  IF ScoreAbove(mM, sM, b.thresh) \/ ScoreAbove(mT, sT, b.thresh)
  THEN [target_dir |-> 1,
        target_sym |-> IF ScoreGe(mM, sM, mT, sT, noise) THEN "MERI" ELSE "TIS"]
  ELSE IF ScoreBelowNeg(mM, sM, b.thresh) \/ ScoreBelowNeg(mT, sT, b.thresh)
  THEN [target_dir |-> -1,
        target_sym |-> IF ScoreGe(mT, sT, mM, sM, noise) THEN "MERI" ELSE "TIS"]
  ELSE [target_dir |-> 0, target_sym |-> "None"]

\* lines 207-222: best/worst score against the threshold, long before short,
\* ties toward MERI
Signal(b, mM, sM, mT, sT, noise) ==
  IF ScoreAbove(mM, sM, b.thresh) \/ ScoreAbove(mT, sT, b.thresh)
  THEN [target_dir |-> 1,
        target_sym |-> IF ScoreGe(mM, sM, mT, sT, noise) THEN "MERI" ELSE "TIS"]
  ELSE IF b.short /\ (ScoreBelowNeg(mM, sM, b.thresh) \/ ScoreBelowNeg(mT, sT, b.thresh))
  THEN [target_dir |-> -1,
        target_sym |-> IF ScoreGe(mT, sT, mM, sM, noise) THEN "MERI" ELSE "TIS"]
  ELSE [target_dir |-> 0, target_sym |-> "None"]

\* line 228: target_vol_annual / math.sqrt(252), in basis points
TargetDaily(b) == (b.target_vol_annual * 1000) \div Sqrt252Milli

\* variant: the notional is the volatility-targeted one, without the gross cap
TargetQtyWithoutCap(b, s, p, valuation, target_dir) ==
  Trunc((TargetDaily(b) * valuation) \div s, p) * target_dir

\* lines 229-240: notional = min(gross_cap, (target_daily / s) * valuation),
\* qty = int(notional / p), signed by the direction
TargetQty(b, s, p, valuation, target_dir) ==
  LET gross_cap == (b.max_gross * valuation) \div 100
      notional == Min(gross_cap, (TargetDaily(b) * valuation) \div s)
  IN Trunc(notional, p) * target_dir

\* lines 196-242: warm-up, signal, sizing, rebalance
Decide(c, pM, pT, cur_M, cur_T, valuation, resp, noise) ==
  LET b == c.bot
      mM == _momentum(b.prices.MERI, b.mom)
      mT == _momentum(b.prices.TIS, b.mom)
      sM == _rolling_vol_from_prices(b.prices.MERI, b.vol)
      sT == _rolling_vol_from_prices(b.prices.TIS, b.vol)
  IN IF mM = None \/ mT = None \/ sM = None \/ sT = None
     THEN Ret(c, "warmup")
     ELSE LET sig == Signal(b, Val(mM), Val(sM), Val(mT), Val(sT), noise)
              c0 == [c EXCEPT !.near_tie = sig.target_dir # 0
                                 /\ NearTie(Val(mM), Val(sM), Val(mT), Val(sT))]
              tgt_M == IF sig.target_dir # 0 /\ sig.target_sym = "MERI"
                       THEN TargetQty(b, Val(sM), pM, valuation, sig.target_dir) ELSE 0
              tgt_T == IF sig.target_dir # 0 /\ sig.target_sym = "TIS"
                       THEN TargetQty(b, Val(sT), pT, valuation, sig.target_dir) ELSE 0
          IN Ret(_rebalance_to_targets(c0, cur_M, cur_T, tgt_M, tgt_T, resp), "rebalance")

\* variant: the latch is released once the valuation is back at the peak
HaltedUntilRecovery(c, valuation) ==
  IF c.bot.max_valuation # None /\ valuation >= Val(c.bot.max_valuation)
  THEN Ret([c EXCEPT !.bot.risk_off = FALSE], "risk_off")
  ELSE Ret(c, "risk_off")

\* variant: the running peak is tracked before the latch is looked at
HaltedTrackingPeak(c, valuation) ==
  Ret([c EXCEPT !.bot.max_valuation =
         IF @ = <<>> THEN <<valuation>> ELSE <<IF @[1] >= valuation THEN @[1] ELSE valuation>>],
      "risk_off")

\* lines 181-182: `if self.risk_off: return`, the tick while latched
Halted(c, valuation) == Ret(c, "risk_off")

\* lines 180-194: the risk-off latch and the drawdown kill switch, then Decide
Risk(c, pM, pT, cur_M, cur_T, valuation, resp, noise) ==
  IF c.bot.risk_off THEN Halted(c, valuation)
  ELSE LET peak == TrackPeak(c.bot, valuation)
           c1 == [c EXCEPT !.bot.max_valuation = Some(peak)]
           dd == DrawdownStop(peak, valuation, c.bot.dd_stop)
       IN IF dd = "ZeroDivisionError" THEN Ret([c1 EXCEPT !.raised = TRUE], "dd")
          ELSE IF dd = "stop"
          THEN LET c2 == _flatten(c1, cur_M, cur_T, resp)
               IN IF c2.raised THEN Ret(c2, "dd_stop")
                  ELSE Ret([c2 EXCEPT !.bot.risk_off = TRUE], "dd_stop")
          ELSE Decide(c1, pM, pT, cur_M, cur_T, valuation, resp, noise)

\* md[sym]["close"] converts to a float
HasClose(md, sym) == "close" \in DOMAIN md[sym]

\* variant: each close is appended as soon as it is read
OnTickPushingEachClose(b, t, resp, noise) ==
  LET c == Ctx([b EXCEPT !._tick_count = @ + 1])
      md == _normalize_market_data(
              IF "marketData" \in DOMAIN t THEN t.marketData ELSE [shape |-> "none"])
  IN IF "MERI" \notin DOMAIN md \/ ~HasClose(md, "MERI") THEN Ret(c, "no_close")
     ELSE LET pM == md.MERI.close
              c1 == [c EXCEPT !.bot.prices.MERI = DequeAppend(@, pM, b.maxlen)]
          IN IF "TIS" \notin DOMAIN md \/ ~HasClose(md, "TIS") THEN Ret(c1, "no_close")
             ELSE LET pT == md.TIS.close
                      c2 == [c1 EXCEPT !.bot.prices.TIS = DequeAppend(@, pT, b.maxlen)]
                      pf == IF "portfolio" \in DOMAIN t THEN t.portfolio ELSE <<>>
                      pos == _net_positions(pf)
                  IN Risk(c2, pM, pT, GetPos(pos, "MERI"), GetPos(pos, "TIS"),
                          TickValuation(t), resp, noise)

\* Bot.on_tick
on_tick(b, t, resp, noise) ==
  LET c == Ctx([b EXCEPT !._tick_count = @ + 1])
      md == _normalize_market_data(
              IF "marketData" \in DOMAIN t THEN t.marketData ELSE [shape |-> "none"])
  IN IF "MERI" \notin DOMAIN md \/ "TIS" \notin DOMAIN md THEN Ret(c, "incomplete")
     ELSE IF ~HasClose(md, "MERI") \/ ~HasClose(md, "TIS") THEN Ret(c, "no_close")
     ELSE LET pM == md.MERI.close
              pT == md.TIS.close
              c1 == [c EXCEPT !.bot.prices.MERI = DequeAppend(@, pM, b.maxlen),
                              !.bot.prices.TIS = DequeAppend(@, pT, b.maxlen)]
              pf == IF "portfolio" \in DOMAIN t THEN t.portfolio ELSE <<>>
              pos == _net_positions(pf)
          IN Risk(c1, pM, pT, GetPos(pos, "MERI"), GetPos(pos, "TIS"),
                  TickValuation(t), resp, noise)

---------------------------------------------------------------------------
(* Inputs of the bounded runs *)

\* keyword arguments of Bot(...): the defaults of Bot.__init__ with the bounded
\* windows, threshold 1.0 (tenths), shorting on or off
Configs ==
  { [mom |-> MomWindow, vol |-> VolWindow, thresh |-> 10, max_gross |-> 40,
     target_vol_annual |-> 1500, dd_stop |-> 300, min_trade_qty |-> 5,
     short |-> sh, rebalance_band |-> 5, cooldown_ticks |-> 3] : sh \in BOOLEAN }

\* close prices the venue streams
LivePrices == {100, 110}

\* the venue's market data: a list of per-symbol records
ListMD(items) == [shape |-> "list", items |-> items]
GoodMarketData ==
  { ListMD(<< [symbol |-> "MERI", close |-> pM], [symbol |-> "TIS", close |-> pT] >>) :
      pM \in LivePrices, pT \in LivePrices }
\* a symbol missing, a close missing, a record without symbol
BadMarketData ==
  { ListMD(<< [symbol |-> "MERI", close |-> 100] >>),
    ListMD(<< [symbol |-> "MERI"], [symbol |-> "TIS", close |-> 100] >>),
    ListMD(<< [close |-> 100], [symbol |-> "TIS", close |-> 100] >>) }

\* what the venue reports of the account with a tick: flat at the peak; long
\* MERI and short TIS 4% under it; long MERI with no valuation (the cash stands
\* in); long MERI with neither valuation nor cash (0.0)
LiveAccounts ==
  { [portfolio |-> [cash |-> 100000], valuation |-> 100000],
    [portfolio |-> [cash |-> 86000, positions |-> [MERI |-> 400],
                    shortPositions |-> [TIS |-> 300]], valuation |-> 96000],
    [portfolio |-> [cash |-> 100000, positions |-> [MERI |-> 400]]],
    [portfolio |-> [positions |-> [MERI |-> 400]]] }

\* a tick message: the account snapshot with the market data
TickOf(md, acct) ==
  [k \in {"type", "marketData"} \cup DOMAIN acct |->
     IF k = "type" THEN "TICK" ELSE IF k = "marketData" THEN md ELSE acct[k]]

LiveTicks == { TickOf(md, acct) : md \in GoodMarketData, acct \in LiveAccounts }

\* malformed ticks, and one without market data at all
LiveBadTicks ==
  { TickOf(md, [portfolio |-> [cash |-> 100000], valuation |-> 96000]) : md \in BadMarketData }
  \cup { [type |-> "TICK", valuation |-> 96000] }

\* the venue's answers to the (at most two) requests of one tick
Outcomes == {"200", "rejected", "error"}
Responses == [1..2 -> Outcomes]
AllOk == [i \in 1..2 |-> "200"]

NoTick == [type |-> "none"]
NoOut == [posted |-> <<>>, placed |-> <<>>, raised |-> FALSE, at |-> "init"]
OutOf(r) == [posted |-> r.posted, placed |-> r.placed, raised |-> r.raised, at |-> r.at]

\* every way one on_tick call can go: the venue's answers matter only when a
\* request is made, the rounding only on a near tie
OnTickResults(b, t, sink) ==
  LET r0 == on_tick(b, t, AllOk, TRUE)
  IN IF r0.posted = <<>> /\ ~r0.near_tie THEN {r0}
     ELSE { on_tick(b, t, resp, noise) : resp \in sink, noise \in BOOLEAN }

---------------------------------------------------------------------------
(* Live: a sequence of Bot.on_tick calls against the venue *)

ledgerVars == <<cash, positions, nb_trades, valuations, pending_orders, pc>>
pairVars == <<live, transmitted, twin, sim>>

Init ==
  /\ \E kw \in Configs : bot = Bot(kw)
  /\ tick = NoTick
  /\ out = NoOut
  /\ cash = 0
  /\ positions = [MERI |-> 0, TIS |-> 0]
  /\ nb_trades = 0
  /\ valuations = <<>>
  /\ pending_orders = <<>>
  /\ pc = "idle"
  /\ live = None
  /\ transmitted = <<>>
  /\ twin = None
  /\ sim = None

\* bot.on_tick(msg)
Deliver(t) ==
  /\ pc = "idle"
  /\ bot._tick_count < MaxTicks
  /\ \E r \in OnTickResults(bot, t, Responses) :
        /\ bot' = r.bot
        /\ out' = OutOf(r)
  /\ tick' = t
  /\ UNCHANGED ledgerVars
  /\ UNCHANGED pairVars

LiveTick == \E t \in LiveTicks : Deliver(t)

LiveBadTick == \E t \in LiveBadTicks : Deliver(t)

Next == LiveTick \/ LiveBadTick

Spec == Init /\ [][Next]_vars

---------------------------------------------------------------------------
(* Properties of the live run *)

\* the tick just processed and what the venue's account said with it
TickPositions(t) ==
  _net_positions(IF "portfolio" \in DOMAIN t THEN t.portfolio ELSE <<>>)
TickPos(t, sym) == GetPos(TickPositions(t), sym)

\* C1: once risk_off has become true it stays true over every later on_tick
\* call, whatever the tick's valuation, prices or positions.
C1_RiskOffIsPermanent == [][bot.risk_off => bot'.risk_off]_vars

\* a tick processed while latched although the valuation is back at the peak
C1_Witness ==
  /\ bot.risk_off
  /\ out.at = "risk_off"
  /\ bot.max_valuation # None
  /\ TickValuation(tick) >= Val(bot.max_valuation)

\* C3: an on_tick call made while risk_off is true emits no order and leaves
\* max_valuation, risk_off and _last_order_tick as they were; of the strategy
\* state only _tick_count changes (by one).
C3_FrozenWhileRiskOff ==
  [][bot.risk_off =>
       /\ out'.posted = <<>>
       /\ ~out'.raised
       /\ bot'.max_valuation = bot.max_valuation
       /\ bot'.risk_off = bot.risk_off
       /\ bot'._last_order_tick = bot._last_order_tick
       /\ bot'._tick_count = bot._tick_count + 1]_vars

\* a tick processed while latched that reports open positions and a new high
C3_Witness ==
  /\ bot.risk_off
  /\ out.at = "risk_off"
  /\ TickPos(tick, "MERI") # 0
  /\ TickValuation(tick) > Val(bot.max_valuation)

\* the tick's market data lacks an instrument, or a close for one: no item
\* carries that symbol together with a close
LacksClose(t, sym) ==
  \/ "marketData" \notin DOMAIN t
  \/ /\ t.marketData.shape = "list"
     /\ ~\E i \in DOMAIN t.marketData.items :
           LET item == t.marketData.items[i]
           IN "symbol" \in DOMAIN item /\ item.symbol = sym /\ "close" \in DOMAIN item
  \/ /\ t.marketData.shape = "dict"
     /\ ~(sym \in DOMAIN t.marketData.items /\ "close" \in DOMAIN t.marketData.items[sym])
Malformed(t) == \E sym \in Symbols : LacksClose(t, sym)

\* C9: on a tick whose market data lacks an instrument or a close, on_tick
\* returns without raising, appends to neither history, emits no order and
\* leaves max_valuation and risk_off unchanged; the two histories have equal
\* length after any sequence of ticks.
C9_MalformedTickIsSkipped ==
  /\ [][Malformed(tick') =>
          /\ ~out'.raised
          /\ bot'.prices = bot.prices
          /\ out'.posted = <<>>
          /\ bot'.max_valuation = bot.max_valuation
          /\ bot'.risk_off = bot.risk_off]_vars
  /\ [](Len(bot.prices.MERI) = Len(bot.prices.TIS))

\* a malformed tick, carrying a valuation under the stop level, arrived after
\* prices and a peak had been recorded, with the latch open
C9_Witness ==
  /\ Malformed(tick)
  /\ out.at \in {"incomplete", "no_close"}
  /\ Len(bot.prices.MERI) > 0
  /\ ~bot.risk_off
  /\ bot.max_valuation # None
  /\ DrawdownStop(Val(bot.max_valuation), TickValuation(tick), bot.dd_stop) = "stop"

\* the flatten order of one instrument: SELL |position| when long, BUY when short
FlattenOrder(t, sym) ==
  Order(sym, IF TickPos(t, sym) > 0 THEN "SELL" ELSE "BUY", Abs(TickPos(t, sym)))
FlattenOrders(t) == { FlattenOrder(t, sym) : sym \in { x \in Symbols : TickPos(t, x) # 0 } }
SetOf(orders) == { orders[i] : i \in DOMAIN orders }

\* a well-formed tick reaching an unlatched engine whose drawdown from the
\* running peak (this tick's valuation included) is at or over dd_stop
Breach(b, t) ==
  /\ ~b.risk_off
  /\ ~Malformed(t)
  /\ DrawdownStop(TrackPeak(b, TickValuation(t)), TickValuation(t), b.dd_stop) = "stop"

\* every request of the call was answered with status 200
VenueAccepted(o) == ~o.raised /\ o.placed = o.posted

\* C2: on a tick processed in ACTIVE whose drawdown is >= dd_stop the engine
\* emits a flatten order for every instrument with a non-zero position and no
\* other order, and sets risk_off.  Stated for the calls in which the venue
\* accepted every request it received.
C2_KillSwitchFlattensAll ==
  [][(Breach(bot, tick') /\ VenueAccepted(out')) =>
       /\ SetOf(out'.posted) = FlattenOrders(tick')
       /\ Len(out'.posted) = Cardinality(FlattenOrders(tick'))
       /\ bot'.risk_off]_vars

\* a price history is shorter than window + 1 for one of the indicators
ShortHistory(b) ==
  \E sym \in Symbols : Len(b.prices[sym]) < b.mom + 1 \/ Len(b.prices[sym]) < b.vol + 1
\* on the histories that are too short the indicator is undefined
UndefinedWhenShort(b) ==
  \A sym \in Symbols :
    /\ Len(b.prices[sym]) < b.mom + 1 => _momentum(b.prices[sym], b.mom) = None
    /\ Len(b.prices[sym]) < b.vol + 1 => _rolling_vol_from_prices(b.prices[sym], b.vol) = None

---------------------------------------------------------------------------
(* Offline: run_backtest replays a price series through a patched Bot *)

\* closes of the replayed series (data_df), one row per period: MERI trades
\* around 2750 a share, TIS around 100
BtPricesM == {2500, 2750, 3000}
BtPricesT == {100, 110}

\* RF_DAILY = RF_ANNUAL / 252; cash *= (1.0 + RF_DAILY)
Accrue(c) == c + (c * RfAnnualE4) \div (TradingDays * 10000)

\* cash + positions["MERI"] * price_meri + positions["TIS"] * price_tis
Valuation(c, pos, pM, pT) == c + pos.MERI * pM + pos.TIS * pT

\* variant: a SELL cannot take the position below zero
RECURSIVE ExecuteLongOnly(_, _, _)
ExecuteLongOnly(ledger, orders, px) ==
  IF orders = <<>> THEN ledger
  ELSE LET o == Head(orders)
           p == px[o.symbol]
           sold == Min(o.quantity, Max(ledger.positions[o.symbol], 0))
           l1 == IF o.action = "BUY"
                 THEN [ledger EXCEPT !.cash = @ - o.quantity * p,
                                     !.positions[o.symbol] = @ + o.quantity,
                                     !.nb_trades = @ + 1]
                 ELSE [ledger EXCEPT !.cash = @ + sold * p,
                                     !.positions[o.symbol] = @ - sold,
                                     !.nb_trades = @ + 1]
       IN ExecuteLongOnly(l1, Tail(orders), px)

\* variant: every execution costs one unit of cash
RECURSIVE ExecuteWithFee(_, _, _)
ExecuteWithFee(ledger, orders, px) ==
  IF orders = <<>> THEN ledger
  ELSE LET o == Head(orders)
           q == IF o.action = "BUY" THEN o.quantity ELSE -o.quantity
       IN ExecuteWithFee([ledger EXCEPT !.cash = @ - q * px[o.symbol] - 1,
                                        !.positions[o.symbol] = @ + q,
                                        !.nb_trades = @ + 1],
                         Tail(orders), px)

\* lines 101-109: execute the captured orders at the close, in order
RECURSIVE Execute(_, _, _)
Execute(ledger, orders, px) ==
  IF orders = <<>> THEN ledger
  ELSE LET o == Head(orders)
           p == px[o.symbol]
           l1 == IF o.action = "BUY"
                 THEN [ledger EXCEPT !.cash = @ - o.quantity * p,
                                     !.positions[o.symbol] = @ + o.quantity,
                                     !.nb_trades = @ + 1]
                 ELSE [ledger EXCEPT !.cash = @ + o.quantity * p,
                                     !.positions[o.symbol] = @ - o.quantity,
                                     !.nb_trades = @ + 1]
       IN Execute(l1, Tail(orders), px)

\* lines 82-94: the tick of one period
BacktestTick(c, pos, pM, pT, valuation) ==
  [ type |-> "TICK",
    marketData |-> [shape |-> "dict",
                    items |-> [MERI |-> [close |-> pM], TIS |-> [close |-> pT]]],
    portfolio |-> [cash |-> c, positions |-> pos],
    valuation |-> valuation ]

\* lines 55-71: a fresh Bot whose post_order is replaced by the recording stub
PatchedBot(kw) == [Bot(kw) EXCEPT !.post_order = "fake_post_order"]

InitBacktest ==
  /\ \E kw \in Configs : bot = PatchedBot(kw)
  /\ tick = NoTick
  /\ out = NoOut
  /\ cash = INITIAL_CAPITAL
  /\ positions = [MERI |-> 0, TIS |-> 0]
  /\ nb_trades = 0
  /\ valuations = <<>>
  /\ pending_orders = <<>>
  /\ pc = "loop"
  /\ live = None
  /\ transmitted = <<>>
  /\ twin = None
  /\ sim = None

\* lines 96-112: the tick t went through bot.on_tick with outcome r; the
\* captured orders are executed at the close and the valuation is recorded
Settle(t, r, cash1, pM, pT) ==
  /\ tick' = t
  /\ bot' = r.bot
  /\ out' = OutOf(r)
  /\ pending_orders' = r.posted
  /\ IF r.raised
     THEN /\ pc' = "raised"
          /\ cash' = cash1
          /\ UNCHANGED <<positions, nb_trades, valuations>>
     ELSE \E l \in {Execute([cash |-> cash1, positions |-> positions,
                             nb_trades |-> nb_trades], r.posted,
                            [MERI |-> pM, TIS |-> pT])} :
            /\ cash' = l.cash
            /\ positions' = l.positions
            /\ nb_trades' = l.nb_trades
            /\ valuations' = Append(valuations, Valuation(l.cash, l.positions, pM, pT))
            /\ pc' = "loop"

\* lines 73-112: one iteration of the replay loop
Period(pM, pT) ==
  /\ pc = "loop"
  /\ LET cash1 == Accrue(cash)
         valuation == Valuation(cash1, positions, pM, pT)
         t == BacktestTick(cash1, positions, pM, pT, valuation)
     IN \E r \in OnTickResults(bot, t, {AllOk}) : Settle(t, r, cash1, pM, pT)
  /\ UNCHANGED pairVars

BtPeriod ==
  /\ Len(valuations) < MaxPeriods
  /\ \E pM \in BtPricesM, pT \in BtPricesT : Period(pM, pT)

\* variant: the call returns whatever the number of valuations
BtFinishAlwaysReturns ==
  /\ pc = "loop"
  /\ pc' = "returned"
  /\ UNCHANGED <<bot, tick, out, cash, positions, nb_trades, valuations, pending_orders>>
  /\ UNCHANGED pairVars

\* lines 114-115: the series is exhausted
BtFinish ==
  /\ pc = "loop"
  /\ pc' = IF valuations = <<>> THEN "RuntimeError" ELSE "returned"
  /\ UNCHANGED <<bot, tick, out, cash, positions, nb_trades, valuations, pending_orders>>
  /\ UNCHANGED pairVars

NextBacktest == BtPeriod \/ BtFinish

SpecBacktest == InitBacktest /\ [][NextBacktest]_vars

---------------------------------------------------------------------------
(* Offline next to online: the ticks of a replay are also given to an        *)
(* unpatched Bot whose requests the venue always answers with status 200     *)

InitPaired ==
  /\ \E kw \in Configs : bot = PatchedBot(kw) /\ live = Some(Bot(kw))
  /\ tick = NoTick
  /\ out = NoOut
  /\ cash = INITIAL_CAPITAL
  /\ positions = [MERI |-> 0, TIS |-> 0]
  /\ nb_trades = 0
  /\ valuations = <<>>
  /\ pending_orders = <<>>
  /\ pc = "loop"
  /\ transmitted = <<>>
  /\ twin = None
  /\ sim = None

\* one period of the replay; the same tick, under the same rounding, goes
\* through the unpatched Bot's on_tick
PairedPeriod(pM, pT) ==
  /\ pc = "loop"
  /\ LET cash1 == Accrue(cash)
         valuation == Valuation(cash1, positions, pM, pT)
         t == BacktestTick(cash1, positions, pM, pT, valuation)
     IN \E noise \in BOOLEAN :
          /\ \E r \in {on_tick(bot, t, AllOk, noise)} : Settle(t, r, cash1, pM, pT)
          /\ \E r \in {on_tick(Val(live), t, AllOk, noise)} :
                /\ live' = Some(r.bot)
                /\ transmitted' = r.placed
  /\ UNCHANGED <<twin, sim>>

BtPairedPeriod ==
  /\ Len(valuations) < MaxPeriods
  /\ \E pM \in BtPricesM, pT \in BtPricesT : PairedPeriod(pM, pT)

NextPaired == BtPairedPeriod \/ BtFinish

SpecPaired == InitPaired /\ [][NextPaired]_vars

\* C6: for the same ticks and the same configuration, with a venue that always
\* reports success, the orders captured by run_backtest's recording sink are
\* the orders the live Bot.post_order transmits, tick after tick.
C6_OfflineEqualsOnline == transmitted = pending_orders

---------------------------------------------------------------------------
(* Properties of the replay *)

\* a step of the replay loop (one more period processed)
IsPeriod == valuations' # valuations

\* the pre-trade valuation of the tick is at or below max_valuation * (1 - dd_stop)
AtOrBelowStop(b, t) ==
  t.valuation * RetScale <= Val(b.max_valuation) * (RetScale - b.dd_stop)

\* C4: in a replay the flatten orders are emitted on one period only, the
\* first whose pre-trade valuation is at or below max_valuation * (1 - dd_stop);
\* after that period's execution both ledger positions are zero, and on every
\* later period no order is captured, no trade is made and they stay zero.
C4_FlattenOnceThenFlat ==
  /\ [](bot.risk_off => positions.MERI = 0 /\ positions.TIS = 0)
  /\ [][IsPeriod =>
          IF bot.risk_off
          THEN /\ pending_orders' = <<>>
               /\ nb_trades' = nb_trades
               /\ positions' = positions
          ELSE IF AtOrBelowStop(bot', tick')
          THEN /\ bot'.risk_off
               /\ pending_orders' # <<>>
               /\ SetOf(pending_orders') = FlattenOrders(tick')
               /\ Len(pending_orders') = Cardinality(FlattenOrders(tick'))
               /\ nb_trades' = nb_trades + Len(pending_orders')
          ELSE ~bot'.risk_off]_vars

\* positions were flattened at a loss on an earlier period, after a rise of
\* MERI, and the replay has gone on, flat, over a later period with a price move
C4_Witness ==
  /\ bot.risk_off
  /\ out.at = "risk_off"
  /\ pending_orders = <<>>
  /\ positions = [MERI |-> 0, TIS |-> 0]
  /\ nb_trades >= 2
  /\ cash < INITIAL_CAPITAL
  /\ \E i \in 1..(Len(bot.prices.MERI) - 2) :
        bot.prices.MERI[i] < bot.prices.MERI[i + 1]
        /\ bot.prices.MERI[Len(bot.prices.MERI)] # bot.prices.MERI[Len(bot.prices.MERI) - 1]

\* C5: global cooldown.  Of two orders requested fewer than cooldown_ticks
\* ticks apart only the first is transmitted: one tick carries at most one
\* order, and when cooldown_ticks is 2 or more a tick that follows a tick with
\* an order carries none.
C5_GlobalCooldown ==
  /\ [](bot.cooldown_ticks >= 1 => Len(pending_orders) <= 1)
  /\ [][(IsPeriod /\ bot.cooldown_ticks >= 2 /\ pending_orders # <<>>) =>
          pending_orders' = <<>>]_vars

\* C10: in the backtest ledger the two instruments are never both held with
\* a non-zero position.
C10_MutuallyExclusive == positions.MERI = 0 \/ positions.TIS = 0

---------------------------------------------------------------------------
(* End to end: a replay of 300 closes, MERI rising steadily, TIS flat *)

\* row n of the series: MERI gains 5% of its first close every 20 rows, TIS
\* does not move
RisingClose(n) == 1000 + (50 * n) \div 20
FlatClose(n) == 100

\* windows of 20, threshold 1.0, no shorting; the gross cap and the minimum
\* trade size range over the values of grid_search_fast
ScenarioConfigs ==
  { [mom |-> ScenarioWindow, vol |-> ScenarioWindow, thresh |-> 10, max_gross |-> mg,
     target_vol_annual |-> 1500, dd_stop |-> 300, min_trade_qty |-> q,
     short |-> FALSE, rebalance_band |-> 5, cooldown_ticks |-> 3] :
      mg \in {40, 60, 80}, q \in {5, 10} }

InitScenario ==
  /\ \E kw \in ScenarioConfigs : bot = PatchedBot(kw)
  /\ tick = NoTick
  /\ out = NoOut
  /\ cash = INITIAL_CAPITAL
  /\ positions = [MERI |-> 0, TIS |-> 0]
  /\ nb_trades = 0
  /\ valuations = <<>>
  /\ pending_orders = <<>>
  /\ pc = "loop"
  /\ live = None
  /\ transmitted = <<>>
  /\ twin = None
  /\ sim = None

\* the next row of the series goes through the loop body
ScenarioPeriod ==
  /\ Len(valuations) < ScenarioPeriods
  /\ Period(RisingClose(Len(valuations)), FlatClose(Len(valuations)))

\* the loop ends with the last row
ScenarioFinish ==
  /\ Len(valuations) = ScenarioPeriods
  /\ BtFinish

NextScenario == ScenarioPeriod \/ ScenarioFinish

SpecScenario == InitScenario /\ [][NextScenario]_vars

\* the post-trade valuation of the last row
FinalValuation == valuations[Len(valuations)]

\* C8 as stated: at the end of the replay a BUY of the rising instrument has
\* been executed and its position is positive, the flat instrument was never
\* traded, and the final valuation exceeds the initial capital.
C8_ScenarioGoesLongRising ==
  pc = "returned" =>
    /\ nb_trades >= 1
    /\ positions.MERI > 0
    /\ positions.TIS = 0
    /\ FinalValuation > INITIAL_CAPITAL

\* C8, amended: the flat instrument has no volatility, its indicator is
\* undefined on every tick, and every tick returns at the warm-up check: no
\* order is ever captured, both positions stay zero over the 300 rows, and the
\* final valuation exceeds the initial capital by the interest on cash alone.
C8_ScenarioNeverTrades ==
  /\ pending_orders = <<>>
  /\ nb_trades = 0
  /\ positions = [MERI |-> 0, TIS |-> 0]
  /\ out.at \in {"init", "warmup"}
  /\ pc = "returned" =>
        /\ Len(valuations) = ScenarioPeriods
        /\ FinalValuation = cash
        /\ FinalValuation > INITIAL_CAPITAL

\* the replay has returned; on its last tick the rising instrument's momentum
\* and volatility were defined, the momentum positive, and the flat
\* instrument's volatility undefined
C8_Witness ==
  /\ pc = "returned"
  /\ Len(valuations) = ScenarioPeriods
  /\ _momentum(bot.prices.MERI, bot.mom) # None
  /\ Val(_momentum(bot.prices.MERI, bot.mom)) > 0
  /\ _rolling_vol_from_prices(bot.prices.MERI, bot.vol) # None
  /\ _momentum(bot.prices.TIS, bot.mom) = Some(0)
  /\ _rolling_vol_from_prices(bot.prices.TIS, bot.vol) = None

---------------------------------------------------------------------------
(* Trading ops on their own: _rebalance_to_targets and _flatten applied to
   drawn positions and targets, with either sink and the cooldown elapsed or
   not.  `tick` holds the arguments of the call, `out` what it handed off. *)

\* positions and targets of the two instruments
QuantitiesM == {-200, 0, 4, 195, 200}
QuantitiesT == {0, 4, 200}

\* keyword arguments: the defaults, and 0 for the minimum size, the band and
\* the cooldown
OrderConfigs ==
  { [mom |-> MomWindow, vol |-> VolWindow, thresh |-> 10, max_gross |-> 40,
     target_vol_annual |-> 1500, dd_stop |-> 300, min_trade_qty |-> q,
     short |-> TRUE, rebalance_band |-> band, cooldown_ticks |-> cd] :
      q \in {0, 5}, band \in {0, 5}, cd \in {0, 3} }

\* the arguments of a call
Args(cur_M, cur_T, tgt_M, tgt_T) ==
  [type |-> "call", cur |-> [MERI |-> cur_M, TIS |-> cur_T],
   tgt |-> [MERI |-> tgt_M, TIS |-> tgt_T]]

\* an instance on its tenth tick, whose last accepted order is either none or
\* one tick old, with the live or the recording sink
InitOrders ==
  /\ \E kw \in OrderConfigs, sink \in {"Bot.post_order", "fake_post_order"},
        last \in {NeverOrdered, 9} :
        bot = [Bot(kw) EXCEPT !._tick_count = 10, !._last_order_tick = last,
                              !.post_order = sink]
  /\ \E cur_M \in QuantitiesM, tgt_M \in QuantitiesM,
        cur_T \in QuantitiesT, tgt_T \in QuantitiesT :
        tick = Args(cur_M, cur_T, tgt_M, tgt_T)
  /\ out = NoOut
  /\ cash = 0
  /\ positions = [MERI |-> 0, TIS |-> 0]
  /\ nb_trades = 0
  /\ valuations = <<>>
  /\ pending_orders = <<>>
  /\ pc = "call"
  /\ live = None
  /\ transmitted = <<>>
  /\ twin = None
  /\ sim = None

\* self._rebalance_to_targets(cur_M, cur_T, tgt_M, tgt_T)
Rebalance ==
  /\ pc = "call"
  /\ \E resp \in Responses :
        LET c == _rebalance_to_targets(Ctx(bot), tick.cur.MERI, tick.cur.TIS,
                                       tick.tgt.MERI, tick.tgt.TIS, resp)
        IN /\ bot' = c.bot
           /\ out' = OutOf(Ret(c, "rebalance"))
  /\ pc' = "rebalanced"
  /\ UNCHANGED <<tick, cash, positions, nb_trades, valuations, pending_orders>>
  /\ UNCHANGED pairVars

\* the same call once the positions have reached the targets, on the same
\* tick or cooldown_ticks ticks later
RebalanceAgain ==
  /\ pc = "rebalanced"
  /\ ~out.raised
  /\ \E resp \in Responses, later \in BOOLEAN :
        LET b == [bot EXCEPT !._tick_count = IF later THEN @ + bot.cooldown_ticks ELSE @]
            c == _rebalance_to_targets(Ctx(b), tick.tgt.MERI, tick.tgt.TIS,
                                       tick.tgt.MERI, tick.tgt.TIS, resp)
        IN /\ bot' = c.bot
           /\ out' = OutOf(Ret(c, "rebalance"))
  /\ tick' = Args(tick.tgt.MERI, tick.tgt.TIS, tick.tgt.MERI, tick.tgt.TIS)
  /\ pc' = "rebalanced_again"
  /\ UNCHANGED <<cash, positions, nb_trades, valuations, pending_orders>>
  /\ UNCHANGED pairVars

\* self._flatten(cur_M, cur_T)
Flatten ==
  /\ pc = "call"
  /\ \E resp \in Responses :
        LET c == _flatten(Ctx(bot), tick.cur.MERI, tick.cur.TIS, resp)
        IN /\ bot' = c.bot
           /\ out' = OutOf(Ret(c, "dd_stop"))
  /\ pc' = "flattened"
  /\ UNCHANGED <<tick, cash, positions, nb_trades, valuations, pending_orders>>
  /\ UNCHANGED pairVars

NextOrders == Rebalance \/ RebalanceAgain \/ Flatten

SpecOrders == InitOrders /\ [][NextOrders]_vars

\* an order for the instrument was handed to the sink by the call
Emitted(sym) == \E i \in DOMAIN out.posted : out.posted[i].symbol = sym

\* delta = target - current of the call, per instrument
Delta(sym) == tick.tgt[sym] - tick.cur[sym]

\* at least cooldown_ticks ticks since the last accepted order
CooldownElapsed(b) == b._tick_count - b._last_order_tick >= b.cooldown_ticks

\* the instrument's delta passes the size filter and the band filter
PassesFilters(b, sym) ==
  /\ Abs(Delta(sym)) >= b.min_trade_qty
  /\ \/ tick.tgt[sym] = 0
     \/ 100 * Abs(Delta(sym)) >= b.rebalance_band * Abs(tick.tgt[sym])

\* C11: the rebalancer hands off an order for an instrument only if, with
\* delta = target - current, abs(delta) >= min_trade_qty and (target = 0 or
\* abs(delta) >= rebalance_band * abs(target)); when either fails, no order is
\* handed off for that instrument.
C11_RebalanceFilter ==
  pc = "rebalanced" =>
    \A sym \in Symbols :
      Emitted(sym) =>
        /\ Abs(Delta(sym)) >= bot.min_trade_qty
        /\ \/ tick.tgt[sym] = 0
           \/ 100 * Abs(Delta(sym)) >= bot.rebalance_band * Abs(tick.tgt[sym])

\* MERI is 5 shares from a target of 200 (at the minimum size, inside the 5%
\* band) and is not traded, while TIS, 200 shares from its target, is
C11_Witness ==
  /\ pc = "rebalanced"
  /\ bot.min_trade_qty = 5 /\ bot.rebalance_band = 5
  /\ bot.post_order = "fake_post_order"
  /\ tick.cur = [MERI |-> 195, TIS |-> 0]
  /\ tick.tgt = [MERI |-> 200, TIS |-> 200]
  /\ out.posted = << Order("TIS", "BUY", 200) >>

\* C12: rebalancer idempotence.  For every (current, target) pair and every
\* configuration, min_trade_qty = 0 and rebalance_band = 0 included, calling
\* the rebalancer again once current = target hands no order to the sink.
C12_RebalanceIdempotent ==
  pc = "rebalanced_again" => out.posted = <<>>

\* the second call ran with no minimum size and no band, a zero target for
\* MERI and a non-zero one for TIS (so that _should_trade is true for both
\* zero deltas), against the live sink with the cooldown elapsed
C12_Witness ==
  /\ pc = "rebalanced_again"
  /\ bot.min_trade_qty = 0 /\ bot.rebalance_band = 0
  /\ bot.post_order = "Bot.post_order"
  /\ CooldownElapsed(bot)
  /\ tick.cur = tick.tgt
  /\ tick.tgt = [MERI |-> 0, TIS |-> 200]
  /\ _should_trade(bot, 0, 0) /\ _should_trade(bot, 0, 200)
  /\ out.posted = <<>>

\* C13: the orders of the two instruments are independent.  On a call made with
\* the cooldown elapsed, in which both instruments' non-zero deltas pass the
\* size and band filters and the sink accepts what it is given, orders for
\* both instruments are handed off in that same call.
C13_BothInstrumentsTrade ==
  [][ ( /\ pc' = "rebalanced"
        /\ CooldownElapsed(bot)
        /\ \A sym \in Symbols : Delta(sym) # 0 /\ PassesFilters(bot, sym)
        /\ VenueAccepted(out') )
      => { out'.posted[i].symbol : i \in DOMAIN out'.posted } = Symbols ]_vars

---------------------------------------------------------------------------
(* Live: order transmission and the risk state *)

\* C15: a failure of order transmission does not desynchronize the risk state.
\* On a tick whose drawdown is at or over dd_stop, risk_off is true when the
\* call ends, whether the flatten requests are accepted, rejected or raise.
C15_RiskOffDespiteFailure ==
  [][ Breach(bot, tick') => bot'.risk_off ]_vars

\* C16: each on_tick call makes at most one transmission attempt per
\* instrument.  The requests of a call are for distinct instruments (a rejected
\* order is not sent again); a call that runs the flatten path leaves from it
\* with nothing but flatten orders, and a call that reaches the rebalance is
\* not a breach tick.
C16_OneAttemptPerInstrument ==
  [][ /\ \A i, j \in DOMAIN out'.posted :
           i # j => out'.posted[i].symbol # out'.posted[j].symbol
      /\ Breach(bot, tick') =>
           /\ out'.at = "dd_stop"
           /\ SetOf(out'.posted) \subseteq FlattenOrders(tick')
      /\ out'.at = "rebalance" => ~Breach(bot, tick') ]_vars

\* a rebalance made a request for each instrument and the venue rejected both
C16_Witness ==
  /\ out.at = "rebalance"
  /\ Len(out.posted) = 2
  /\ out.placed = <<>>
  /\ ~out.raised

---------------------------------------------------------------------------
(* Signal and sizing on their own: lines 207-240 of on_tick applied to drawn
   indicators, prices and valuations.  `tick` holds the inputs, `out` the
   signal and the two targets. *)

\* momenta and volatilities (basis points): scores -3 .. 3, among them the
\* threshold itself (300 / 300), equal scores, and none within rounding
\* distance of another
DrawnMomenta == {-300, -150, 0, 150, 300}
DrawnVols == {100, 300}
DrawnPrices == {100, 2750}
DrawnValuations == {50, 100000}

\* keyword arguments: the defaults with shorting on or off and a gross cap of
\* 40% or 80%
DecisionConfigs ==
  { [mom |-> MomWindow, vol |-> VolWindow, thresh |-> 10, max_gross |-> mg,
     target_vol_annual |-> 1500, dd_stop |-> 300, min_trade_qty |-> 5,
     short |-> sh, rebalance_band |-> 5, cooldown_ticks |-> 3] :
      mg \in {40, 80}, sh \in BOOLEAN }

InitDecision ==
  /\ \E kw \in DecisionConfigs : bot = Bot(kw)
  /\ \E mM \in DrawnMomenta, mT \in DrawnMomenta, sM \in DrawnVols, sT \in DrawnVols,
        pM \in DrawnPrices, valuation \in DrawnValuations :
        tick = [type |-> "indicators", mM |-> mM, sM |-> sM, mT |-> mT, sT |-> sT,
                pM |-> pM, pT |-> 100, valuation |-> valuation]
  /\ out = [target_dir |-> 0, target_sym |-> "None", tgt_M |-> 0, tgt_T |-> 0]
  /\ cash = 0
  /\ positions = [MERI |-> 0, TIS |-> 0]
  /\ nb_trades = 0
  /\ valuations = <<>>
  /\ pending_orders = <<>>
  /\ pc = "signal"
  /\ live = None
  /\ transmitted = <<>>
  /\ twin = None
  /\ sim = None

\* lines 207-222: the signal
ApplySignal ==
  /\ pc = "signal"
  /\ \E noise \in BOOLEAN :
        LET sig == Signal(bot, tick.mM, tick.sM, tick.mT, tick.sT, noise)
        IN out' = [out EXCEPT !.target_dir = sig.target_dir,
                              !.target_sym = sig.target_sym]
  /\ pc' = "sizing"
  /\ UNCHANGED <<bot, tick, cash, positions, nb_trades, valuations, pending_orders>>
  /\ UNCHANGED pairVars

\* lines 227-240: the two targets
ApplySizer ==
  /\ pc = "sizing"
  /\ out' = [out EXCEPT
        !.tgt_M = IF out.target_dir # 0 /\ out.target_sym = "MERI"
                  THEN TargetQty(bot, tick.sM, tick.pM, tick.valuation, out.target_dir)
                  ELSE 0,
        !.tgt_T = IF out.target_dir # 0 /\ out.target_sym = "TIS"
                  THEN TargetQty(bot, tick.sT, tick.pT, tick.valuation, out.target_dir)
                  ELSE 0]
  /\ pc' = "sized"
  /\ UNCHANGED <<bot, tick, cash, positions, nb_trades, valuations, pending_orders>>
  /\ UNCHANGED pairVars

NextDecision == ApplySignal \/ ApplySizer

SpecDecision == InitDecision /\ [][NextDecision]_vars

\* a_1 > a_2 for a_i = m_i / s_i with s_i > 0
ScoreGreater(m1, s1, m2, s2) == m1 * s2 > m2 * s1
\* max(a_1, a_2) > thresh and min(a_1, a_2) < -thresh (thresh in tenths)
BestAboveThresh ==
  10 * tick.mM > bot.thresh * tick.sM \/ 10 * tick.mT > bot.thresh * tick.sT
WorstBelowNegThresh ==
  10 * tick.mM < -(bot.thresh * tick.sM) \/ 10 * tick.mT < -(bot.thresh * tick.sT)

\* C17: the signal rule, for all score pairs.  If max(a_1, a_2) > thresh the
\* target is long the instrument with the higher score, MERI on a tie, whether
\* or not a short would qualify; else if shorting is enabled and
\* min(a_1, a_2) < -thresh the target is short the instrument with the lower
\* score, MERI on a tie; otherwise both targets are zero.
C17_SignalRule ==
  pc \in {"sizing", "sized"} =>
    IF BestAboveThresh
    THEN /\ out.target_dir = 1
         /\ out.target_sym = IF ScoreGreater(tick.mT, tick.sT, tick.mM, tick.sM)
                              THEN "TIS" ELSE "MERI"
         /\ pc = "sized" => out.tgt_M >= 0 /\ out.tgt_T >= 0
    ELSE IF bot.short /\ WorstBelowNegThresh
    THEN /\ out.target_dir = -1
         /\ out.target_sym = IF ScoreGreater(tick.mM, tick.sM, tick.mT, tick.sT)
                              THEN "TIS" ELSE "MERI"
         /\ pc = "sized" => out.tgt_M <= 0 /\ out.tgt_T <= 0
    ELSE /\ out.target_dir = 0
         /\ out.tgt_M = 0 /\ out.tgt_T = 0

\* equal scores of 3 with shorting enabled: the target is long MERI
C17_Witness ==
  /\ pc = "sized"
  /\ bot.short
  /\ tick.mM = 300 /\ tick.sM = 100 /\ tick.mT = 300 /\ tick.sT = 100
  /\ tick.valuation = 100000
  /\ out.target_dir = 1 /\ out.target_sym = "MERI"
  /\ out.tgt_M > 0 /\ out.tgt_T = 0

\* the selected instrument's target, volatility and price
SizedTarget == IF out.target_sym = "MERI" THEN out.tgt_M ELSE out.tgt_T
SizedVol == IF out.target_sym = "MERI" THEN tick.sM ELSE tick.sT
SizedPrice == IF out.target_sym = "MERI" THEN tick.pM ELSE tick.pT

\* C18: the gross exposure cap.  For every target of the sizer, with positive
\* valuation and price, abs(target) * price <= max_gross * valuation, and the
\* target is floor(min(gross_cap, (target_daily / volatility) * valuation) /
\* price) * direction: n * price is within both notionals and (n + 1) * price
\* is over one of them.  The other instrument's target is zero.
C18_GrossCapAndFloor ==
  (pc = "sized" /\ out.target_dir # 0) =>
    LET n == Abs(SizedTarget)
        cost == n * SizedPrice
        next == (n + 1) * SizedPrice
    IN /\ 100 * cost <= bot.max_gross * tick.valuation
       /\ SizedVol * cost <= TargetDaily(bot) * tick.valuation
       /\ \/ 100 * next > bot.max_gross * tick.valuation
          \/ SizedVol * next > TargetDaily(bot) * tick.valuation
       /\ SizedTarget = n * out.target_dir
       /\ out.tgt_M = 0 \/ out.tgt_T = 0

\* a short of MERI at 2750 sized by the gross cap: the volatility-targeted
\* notional (0.94 of the valuation) is over the cap of 40%, and the target is
\* -14 shares (38500 of 40000)
C18_Witness ==
  /\ pc = "sized"
  /\ bot.max_gross = 40
  /\ tick.valuation = 100000 /\ tick.pM = 2750 /\ tick.sM = 100
  /\ out.target_dir = -1 /\ out.target_sym = "MERI"
  /\ out.tgt_M = -14

---------------------------------------------------------------------------
(* Trading ops on their own: what reaches the sink *)

\* C19: every order handed to the sink, live or recording, has a strictly
\* positive quantity and the direction is in the side only.  For a rebalance
\* order the quantity is abs(target - current) and the side is BUY exactly
\* when target > current; for a flatten order the quantity is abs(current) and
\* the side is SELL exactly when current > 0.  No order of quantity 0 is
\* handed off.
C19_PositiveQuantitySideEncoded ==
  \A i \in DOMAIN out.posted :
    LET o == out.posted[i]
    IN /\ pc \in {"rebalanced", "rebalanced_again", "flattened"}
       /\ o.quantity > 0
       /\ o.action \in {"BUY", "SELL"}
       /\ pc \in {"rebalanced", "rebalanced_again"} =>
            /\ o.quantity = Abs(tick.tgt[o.symbol] - tick.cur[o.symbol])
            /\ o.action = "BUY" <=> tick.tgt[o.symbol] > tick.cur[o.symbol]
       /\ pc = "flattened" =>
            /\ o.quantity = Abs(tick.cur[o.symbol])
            /\ o.action = "SELL" <=> tick.cur[o.symbol] > 0

\* a rebalance with no minimum size and no band, from 200 MERI to a short of
\* 200 and with TIS already at its target: the recording sink got SELL 400
\* MERI and nothing for the zero delta of TIS
C19_Witness ==
  /\ pc = "rebalanced"
  /\ bot.post_order = "fake_post_order"
  /\ bot.min_trade_qty = 0 /\ bot.rebalance_band = 0
  /\ tick.cur = [MERI |-> 200, TIS |-> 4]
  /\ tick.tgt = [MERI |-> -200, TIS |-> 4]
  /\ _should_trade(bot, Delta("TIS"), tick.tgt.TIS)
  /\ out.posted = << Order("MERI", "SELL", 400) >>

---------------------------------------------------------------------------
(* Replay: the ledger *)

\* the close of the instrument in the period's tick
CloseOf(t, sym) == t.marketData.items[sym].close

\* shares bought minus shares sold of the instrument in a list of orders
NetBought(orders, sym) ==
  SumSeq([i \in DOMAIN orders |->
            IF orders[i].symbol # sym THEN 0
            ELSE IF orders[i].action = "BUY" THEN orders[i].quantity
            ELSE -orders[i].quantity])

\* C20: ledger execution.  On every period of a replay the cash first earns
\* the daily interest, and the pre-trade valuation of the tick is taken after
\* it; each captured order is executed at the period's close: a BUY of qty
\* takes qty * price from the cash and adds qty to the position, a SELL does
\* the opposite (the position may go negative), and each counts as one trade;
\* a period without captured order leaves the positions unchanged and the
\* cash changed by the interest only.
C20_LedgerExecution ==
  [][ IsPeriod =>
        /\ tick'.valuation = Valuation(Accrue(cash), positions,
                                        CloseOf(tick', "MERI"), CloseOf(tick', "TIS"))
        /\ \A sym \in Symbols :
             positions'[sym] = positions[sym] + NetBought(pending_orders', sym)
        /\ cash' = Accrue(cash)
                    - NetBought(pending_orders', "MERI") * CloseOf(tick', "MERI")
                    - NetBought(pending_orders', "TIS") * CloseOf(tick', "TIS")
        /\ nb_trades' = nb_trades + Len(pending_orders')
        /\ pending_orders' = <<>> =>
             positions' = positions /\ cash' = Accrue(cash) ]_vars

\* a period whose SELL was executed from a flat position: the ledger is short
\* MERI, and the cash holds the proceeds
C20_Witness ==
  /\ pc = "loop"
  /\ \E i \in DOMAIN pending_orders :
        pending_orders[i].symbol = "MERI" /\ pending_orders[i].action = "SELL"
  /\ positions.MERI < 0
  /\ cash > INITIAL_CAPITAL + 10000

---------------------------------------------------------------------------
(* Replay: the metrics (lines 117-168) *)

\* a drawdown (peak - v) / peak, kept as the exact fraction
Frac(num, den) == [num |-> num, den |-> den]
\* x > y for fractions with positive denominators
FracGreater(x, y) == x.num * y.den > y.num * x.den

\* variant: the drawdown is measured against the first valuation
MaxDdStepFromStart(acc, v) ==
  LET dd == Frac(acc.peak - v, acc.peak)
  IN [peak |-> acc.peak, max_dd |-> IF FracGreater(dd, acc.max_dd) THEN dd ELSE acc.max_dd]

\* lines 144-149: one iteration of the drawdown loop
MaxDdStep(acc, v) ==
  LET peak == IF v > acc.peak THEN v ELSE acc.peak
      dd == Frac(peak - v, peak)
  IN [peak |-> peak, max_dd |-> IF FracGreater(dd, acc.max_dd) THEN dd ELSE acc.max_dd]

\* lines 142-143: peak = vals[0], max_dd = 0.0
MaxDdStart(vals) == [peak |-> vals[1], max_dd |-> Frac(0, 1)]

RECURSIVE MaxDdLoop(_, _)
MaxDdLoop(acc, vals) ==
  IF vals = <<>> THEN acc ELSE MaxDdLoop(MaxDdStep(acc, Head(vals)), Tail(vals))

\* the max_dd metric of a non-empty valuation path
MaxDrawdown(vals) == MaxDdLoop(MaxDdStart(vals), vals).max_dd

\* the metrics dict: final_val, pnl, return (basis points), max_dd, trades and
\* the final positions; the remaining entries (downside_dev, vol_annual,
\* sharpe, score) are computed from the valuations alone
Metrics(vals, trades, pos) ==
  [ final_val |-> vals[Len(vals)],
    pnl |-> vals[Len(vals)] - INITIAL_CAPITAL,
    return |-> (vals[Len(vals)] * RetScale) \div INITIAL_CAPITAL - RetScale,
    max_dd |-> MaxDrawdown(vals),
    trades |-> trades,
    final_pos_MERI |-> pos.MERI,
    final_pos_TIS |-> pos.TIS,
    days |-> Len(vals) ]

---------------------------------------------------------------------------
(* Two replays of one series: run_backtest called twice with the same
   data_df and the same keyword arguments, the two calls interleaved in any
   way.  The first call runs in the ledger variables, the second in `twin`,
   which also holds the rows of the series read so far. *)

\* a row of data_df, with the rounding of the doubles on that row
TwinRows ==
  { [pM |-> pM, pT |-> pT, noise |-> noise] :
      pM \in BtPricesM, pT \in BtPricesT, noise \in BOOLEAN }

\* lines 55-71: the locals of a call
Replay(kw) ==
  [ bot |-> PatchedBot(kw), cash |-> INITIAL_CAPITAL,
    positions |-> [MERI |-> 0, TIS |-> 0], nb_trades |-> 0, valuations |-> <<>>,
    pending_orders |-> <<>>, pc |-> "loop", series |-> <<>> ]

\* variant: one Bot instance serves every call
SharedBot(rp, first) == first

\* line 55: the Bot of a call is the one it constructed
OwnBot(rp, first) == rp.bot

\* lines 73-112: one iteration of the loop on the locals rp
LoopBody(rp, row, first) ==
  LET cash1 == Accrue(rp.cash)
      valuation == Valuation(cash1, rp.positions, row.pM, row.pT)
      t == BacktestTick(cash1, rp.positions, row.pM, row.pT, valuation)
      r == on_tick(OwnBot(rp, first), t, AllOk, row.noise)
      l == Execute([cash |-> cash1, positions |-> rp.positions,
                    nb_trades |-> rp.nb_trades], r.posted,
                   [MERI |-> row.pM, TIS |-> row.pT])
  IN IF r.raised
     THEN [rp EXCEPT !.bot = r.bot, !.pending_orders = r.posted, !.cash = cash1,
                     !.pc = "raised"]
     ELSE [rp EXCEPT !.bot = r.bot, !.pending_orders = r.posted, !.cash = l.cash,
                     !.positions = l.positions, !.nb_trades = l.nb_trades,
                     !.valuations = Append(@, Valuation(l.cash, l.positions, row.pM, row.pT))]

InitTwin ==
  /\ \E kw \in Configs : bot = PatchedBot(kw) /\ twin = Some(Replay(kw))
  /\ tick = NoTick
  /\ out = NoOut
  /\ cash = INITIAL_CAPITAL
  /\ positions = [MERI |-> 0, TIS |-> 0]
  /\ nb_trades = 0
  /\ valuations = <<>>
  /\ pending_orders = <<>>
  /\ pc = "loop"
  /\ live = None
  /\ transmitted = <<>>
  /\ sim = None

\* the rows a call that has done k periods can read next: the row of the
\* series, or a new one while the other call is still in its loop
NextRows(k, series, other_pc) ==
  IF k < Len(series) THEN {series[k + 1]}
  ELSE IF other_pc = "loop" THEN TwinRows ELSE {}

\* the first call runs one iteration
TwinFirstPeriod ==
  /\ pc = "loop"
  /\ Len(valuations) < TwinPeriods
  /\ \E row \in NextRows(Len(valuations), Val(twin).series, Val(twin).pc) :
       LET cash1 == Accrue(cash)
           valuation == Valuation(cash1, positions, row.pM, row.pT)
           t == BacktestTick(cash1, positions, row.pM, row.pT, valuation)
       IN \E r \in {on_tick(bot, t, AllOk, row.noise)} :
            /\ Len(valuations) < Len(Val(twin).series) \/ row.noise \/ r.near_tie
            /\ Settle(t, r, cash1, row.pM, row.pT)
            /\ twin' = Some([Val(twin) EXCEPT !.series =
                               IF Len(valuations) < Len(@) THEN @ ELSE Append(@, row)])
  /\ UNCHANGED <<live, transmitted, sim>>

\* the second call runs one iteration
TwinSecondPeriod ==
  /\ Val(twin).pc = "loop"
  /\ Len(Val(twin).valuations) < TwinPeriods
  /\ LET rp == Val(twin)
         k == Len(rp.valuations)
     IN \E row \in NextRows(k, rp.series, pc) :
          \E rp1 \in {LoopBody(rp, row, bot)} :
            /\ k < Len(rp.series) \/ row.noise
               \/ rp1 # LoopBody(rp, [row EXCEPT !.noise = TRUE], bot)
            /\ twin' = Some([rp1 EXCEPT !.series =
                               IF k < Len(@) THEN @ ELSE Append(@, row)])
  /\ UNCHANGED <<bot, tick, out, cash, positions, nb_trades, valuations, pending_orders, pc>>
  /\ UNCHANGED <<live, transmitted, sim>>

\* lines 114-115 in the first call, at the end of the series
TwinFirstFinish ==
  /\ Len(valuations) = Len(Val(twin).series)
  /\ BtFinish

\* lines 114-115 in the second call
TwinSecondFinish ==
  /\ Val(twin).pc = "loop"
  /\ Len(Val(twin).valuations) = Len(Val(twin).series)
  /\ twin' = Some([Val(twin) EXCEPT !.pc =
                     IF Val(twin).valuations = <<>> THEN "RuntimeError" ELSE "returned"])
  /\ UNCHANGED <<bot, tick, out, cash, positions, nb_trades, valuations, pending_orders, pc>>
  /\ UNCHANGED <<live, transmitted, sim>>

NextTwin == TwinFirstPeriod \/ TwinSecondPeriod \/ TwinFirstFinish \/ TwinSecondFinish

SpecTwin == InitTwin /\ [][NextTwin]_vars

---------------------------------------------------------------------------
(* Replay: the end of the call *)

\* C22: run_backtest on an empty series fails with RuntimeError and returns no
\* metrics.  When the loop ends, the call raises RuntimeError exactly when no
\* valuation was recorded, which is when the series had no row; it returns
\* only with at least one valuation.
C22_EmptySeriesRaises ==
  [][ (pc = "loop" /\ pc' \in {"returned", "RuntimeError"}) =>
        /\ pc' = "RuntimeError" <=> valuations = <<>>
        /\ pc' = "RuntimeError" => tick = NoTick /\ nb_trades = 0
        /\ pc' = "returned" => Len(valuations') >= 1 ]_vars

\* the call on an empty series has raised
C22_Witness ==
  /\ pc = "RuntimeError"
  /\ valuations = <<>>
  /\ bot._tick_count = 0

---------------------------------------------------------------------------
(* The drawdown metric on its own: lines 141-149 applied to drawn paths of
   positive post-trade valuations, held in `valuations`; `out` is the result *)

DrawnPathValues == {90, 95, 100, 120}

\* every path of 1 to PathLen values
DrawnPaths == UNION { [1..n -> DrawnPathValues] : n \in 1..PathLen }

InitMetrics ==
  /\ \E kw \in Configs : bot = PatchedBot(kw)
  /\ valuations \in DrawnPaths
  /\ tick = NoTick
  /\ out = NoOut
  /\ cash = INITIAL_CAPITAL
  /\ positions = [MERI |-> 0, TIS |-> 0]
  /\ nb_trades = 0
  /\ pending_orders = <<>>
  /\ pc = "metrics"
  /\ live = None
  /\ transmitted = <<>>
  /\ twin = None
  /\ sim = None

\* lines 141-149
MeasureDrawdown ==
  /\ pc = "metrics"
  /\ out' = [max_dd |-> MaxDrawdown(valuations)]
  /\ pc' = "returned"
  /\ UNCHANGED <<bot, tick, cash, positions, nb_trades, valuations, pending_orders>>
  /\ UNCHANGED pairVars

NextMetrics == MeasureDrawdown

SpecMetrics == InitMetrics /\ [][NextMetrics]_vars

\* (v_i - v_j) / v_i for every i <= j of the path
PeakToTrough(vals) ==
  { Frac(vals[p[1]] - vals[p[2]], vals[p[1]]) :
      p \in { q \in (DOMAIN vals) \X (DOMAIN vals) : q[1] <= q[2] } }

\* C23: maximum drawdown.  For every non-empty path of positive valuations
\* the max_dd metric is the maximum over i <= j of (v_i - v_j) / v_i: it is
\* the value of one of these drawdowns and none of them is greater; for the
\* path [100, 120, 90, 95] it is 0.25.
C23_MaxDrawdown ==
  pc = "returned" =>
    /\ \E x \in PeakToTrough(valuations) :
         x.num * out.max_dd.den = out.max_dd.num * x.den
    /\ \A x \in PeakToTrough(valuations) : ~FracGreater(x, out.max_dd)
    /\ valuations = <<100, 120, 90, 95>> => 4 * out.max_dd.num = out.max_dd.den

\* the path [100, 120, 90, 95] measured: 30 under the peak of 120
C23_Witness ==
  /\ pc = "returned"
  /\ valuations = <<100, 120, 90, 95>>
  /\ out.max_dd = Frac(30, 120)

---------------------------------------------------------------------------
(* The price histories over a run longer than their capacity *)

\* ticks of a quiet market: MERI moves, TIS stays at 100 (its volatility is
\* degenerate, so no call gets past the warm-up test); the account is flat at
\* the peak, or long MERI and short TIS 4% under it
HistoryTicksIn ==
  { TickOf(ListMD(<< [symbol |-> "MERI", close |-> pM], [symbol |-> "TIS", close |-> 100] >>),
           acct) :
      pM \in LivePrices,
      acct \in { [portfolio |-> [cash |-> 100000], valuation |-> 100000],
                 [portfolio |-> [cash |-> 86000, positions |-> [MERI |-> 400],
                                 shortPositions |-> [TIS |-> 300]], valuation |-> 96000] } }

\* bot.on_tick(msg), up to HistoryTicks times
Push(t) ==
  /\ pc = "idle"
  /\ bot._tick_count < HistoryTicks
  /\ \E r \in OnTickResults(bot, t, Responses) :
        /\ bot' = r.bot
        /\ out' = OutOf(r)
  /\ tick' = t
  /\ UNCHANGED ledgerVars
  /\ UNCHANGED pairVars

HistoryTick == \E t \in HistoryTicksIn : Push(t)

HistoryBadTick == \E t \in LiveBadTicks : Push(t)

NextHistory == HistoryTick \/ HistoryBadTick

SpecHistory == Init /\ [][NextHistory]_vars

\* the close a list-shaped tick carries for the instrument
StreamedClose(t, sym) ==
  LET items == t.marketData.items
  IN items[CHOOSE i \in DOMAIN items :
             "symbol" \in DOMAIN items[i] /\ items[i].symbol = sym].close

\* C24: PriceHistory bound.  Each history holds at most max(mom, vol) + 5
\* prices; a well-formed tick appends its close at the end of each history,
\* dropping exactly the oldest entry when the history is at capacity and
\* nothing otherwise; a malformed tick leaves both histories as they are.  So
\* the histories are the most recent well-formed closes in arrival order.
C24_HistoryBound ==
  [][ \A sym \in Symbols :
        LET h == bot.prices[sym]
            cap == Max(bot.mom, bot.vol) + 5
        IN /\ Len(bot'.prices[sym]) <= cap
           /\ Malformed(tick') => bot'.prices[sym] = h
           /\ ~Malformed(tick') =>
                bot'.prices[sym] =
                  IF Len(h) = cap
                  THEN [i \in 1..cap |-> IF i < cap THEN h[i + 1] ELSE StreamedClose(tick', sym)]
                  ELSE h \o <<StreamedClose(tick', sym)>> ]_vars

\* both histories full and the oldest MERI close, 110, gone: the last seven of
\* the closes 110, 100, 100, 100, 100, 100, 100, 110 are held
C24_Witness ==
  /\ bot._tick_count = 8
  /\ bot.prices.MERI = <<100, 100, 100, 100, 100, 100, 110>>
  /\ Len(bot.prices.TIS) = 7

---------------------------------------------------------------------------
(* Degenerate volatility *)

\* the history covers the volatility window and the price did not move in it
ConstantOverWindow(b, sym) ==
  LET h == b.prices[sym]
  IN /\ Len(h) >= b.vol + 1
     /\ \A i \in (Len(h) - b.vol)..Len(h) : h[i] = h[Len(h)]

\* the tick is well formed and reaches the strategy: no latch, no breach
ReachesStrategy(b, t) ==
  /\ ~b.risk_off
  /\ ~Malformed(t)
  /\ DrawdownStop(TrackPeak(b, TickValuation(t)), TickValuation(t), b.dd_stop) = "ok"

\* C25: degenerate volatility.  On a tick that reaches the strategy while the
\* price of one instrument was constant over the volatility window (its
\* rolling volatility is below 1e-8), on_tick returns at the warm-up test: no
\* signal is computed and no order is emitted, whatever the other instrument's
\* score and the position held.
C25_DegenerateVolatility ==
  [][ ( /\ ReachesStrategy(bot, tick')
        /\ \E sym \in Symbols : ConstantOverWindow(bot', sym) )
      => /\ out'.at = "warmup"
         /\ out'.posted = <<>>
         /\ ~out'.raised ]_vars

\* TIS stayed at 100 while MERI went 100, 100, 110 (score 1.41 above the
\* threshold 1.0) with 400 MERI held: the tick ends at the warm-up test
C25_Witness ==
  /\ bot.prices.TIS = <<100, 100, 100>>
  /\ bot.prices.MERI = <<100, 100, 110>>
  /\ ScoreAbove(Val(_momentum(bot.prices.MERI, bot.mom)),
                Val(RollingVolUnguarded(bot.prices.MERI, bot.vol)), bot.thresh)
  /\ TickPos(tick, "MERI") = 400
  /\ ~bot.risk_off
  /\ out.at = "warmup"
  /\ out.posted = <<>>

---------------------------------------------------------------------------
(* Simulation: the websocket callback, the queue and the bot thread *)

\* a websocket text frame: the keepalive, or JSON text given by the value
\* json.loads returns for it, or text that json.loads rejects
Ping == [text |-> "PING"]
JsonText(v) == [text |-> "json", value |-> v]
NotJson == [text |-> "garbage"]

\* Python values a frame can parse to
PyDict(d) == [t |-> "dict", d |-> d]
PyNone == [t |-> "None"]
PyList == [t |-> "list"]

\* ticks of the session: MERI at 100 or 110 with a flat account at the peak,
\* and a tick whose account has neither valuation nor cash; TIS stays at 100
SimTicks ==
  { TickOf(ListMD(<< [symbol |-> "MERI", close |-> pM], [symbol |-> "TIS", close |-> 100] >>),
           [portfolio |-> [cash |-> 100000], valuation |-> 100000]) : pM \in LivePrices }
  \cup
  { TickOf(ListMD(<< [symbol |-> "MERI", close |-> 100], [symbol |-> "TIS", close |-> 100] >>),
           [portfolio |-> [positions |-> [MERI |-> 400]]]) }

\* what the venue sends: keepalives, ticks, other events, null, a list, garbage
WsMessages ==
  {Ping, NotJson, JsonText(PyNone), JsonText(PyList),
   JsonText(PyDict([type |-> "ORDER"])), JsonText(PyDict([event |-> "hello"]))}
  \cup { JsonText(PyDict(t)) : t \in SimTicks }

\* json.loads(message)
json_loads(message) ==
  IF message.text = "json" THEN [raised |-> FALSE, data |-> message.value]
  ELSE [raised |-> TRUE, data |-> PyNone]

\* on_message(ws, message); `enqueued` records every put
on_message(s, message) ==
  IF message = Ping
  THEN [s EXCEPT !.sent = Append(@, "PONG")]
  ELSE LET j == json_loads(message)
       IN IF j.raised THEN [s EXCEPT !.ws_raised = TRUE]
          ELSE IF j.data # PyNone
          THEN [s EXCEPT !.price_queue = Append(@, j.data), !.enqueued = Append(@, j.data)]
          ELSE s

\* variant: every mapping is a tick
IsTickAnyMapping(msg) == msg.t = "dict"

\* isinstance(msg, dict) and msg.get("type") == "TICK"
IsTick(msg) == msg.t = "dict" /\ "type" \in DOMAIN msg.d /\ msg.d.type = "TICK"

\* variant: two consumers of the queue
TwoBotThreads == {"bot_thread", "bot_thread_2"}

\* Simulation.start starts one bot thread
BotThreads == {"bot_thread"}

\* the module globals and the threads after Simulation(b).start()
InitSim ==
  /\ \E kw \in Configs : bot = Bot(kw)
  /\ tick = NoTick
  /\ out = NoOut
  /\ cash = 0
  /\ positions = [MERI |-> 0, TIS |-> 0]
  /\ nb_trades = 0
  /\ valuations = <<>>
  /\ pending_orders = <<>>
  /\ pc = "simulation"
  /\ live = None
  /\ transmitted = <<>>
  /\ twin = None
  /\ sim = Some([ simulation_running |-> TRUE,
                  simulation_paused |-> FALSE,
                  price_queue |-> <<>>,
                  received |-> <<>>,
                  sent |-> <<>>,
                  ws_raised |-> FALSE,
                  enqueued |-> <<>>,
                  delivered |-> <<>>,
                  keyboard |-> "input",
                  threads |-> [th \in BotThreads |-> [at |-> "while", msg |-> PyNone]] ])

simUnchanged == <<bot, tick, out, cash, positions, nb_trades, valuations, pending_orders,
                  pc, live, transmitted, twin>>

\* the websocket thread calls on_message with the next frame
WsReceive ==
  /\ pc = "simulation"
  /\ Len(Val(sim).received) < SimMessages
  /\ \E message \in WsMessages :
       sim' = Some(on_message([Val(sim) EXCEPT !.received = Append(@, message),
                                                !.ws_raised = FALSE], message))
  /\ UNCHANGED simUnchanged

\* trading_bot: `while simulation_running`, then the pause test
BotLoop ==
  /\ pc = "simulation"
  /\ \E th \in BotThreads :
       LET s == Val(sim)
       IN /\ s.threads[th].at = "while"
          /\ IF ~s.simulation_running
             THEN sim' = Some([s EXCEPT !.threads[th].at = "ended"])
             ELSE /\ ~s.simulation_paused
                  /\ sim' = Some([s EXCEPT !.threads[th].at = "get"])
  /\ UNCHANGED simUnchanged

\* price_queue.get(timeout=1): the oldest message, or Empty and `continue`
BotGet ==
  /\ pc = "simulation"
  /\ \E th \in BotThreads :
       LET s == Val(sim)
       IN /\ s.threads[th].at = "get"
          /\ IF s.price_queue = <<>>
             THEN sim' = Some([s EXCEPT !.threads[th].at = "while"])
             ELSE sim' = Some([s EXCEPT !.price_queue = Tail(@),
                                        !.threads[th] = [at |-> "filter",
                                                         msg |-> Head(s.price_queue)]])
  /\ UNCHANGED simUnchanged

\* the filter: a tick enters bot.on_tick, anything else is dropped
BotFilter ==
  /\ pc = "simulation"
  /\ \E th \in BotThreads :
       LET s == Val(sim)
           msg == s.threads[th].msg
       IN /\ s.threads[th].at = "filter"
          /\ IF IsTick(msg)
             THEN sim' = Some([s EXCEPT !.threads[th].at = "on_tick",
                                        !.delivered = Append(@, msg)])
             ELSE sim' = Some([s EXCEPT !.threads[th] = [at |-> "while", msg |-> PyNone]])
  /\ UNCHANGED simUnchanged

\* bot.on_tick(msg) runs to its end; an exception ends the thread
BotOnTick ==
  /\ pc = "simulation"
  /\ \E th \in BotThreads :
       LET s == Val(sim)
           msg == s.threads[th].msg
       IN /\ s.threads[th].at = "on_tick"
          /\ \E r \in OnTickResults(bot, msg.d, Responses) :
               /\ bot' = r.bot
               /\ out' = OutOf(r)
               /\ tick' = msg.d
               /\ sim' = Some([s EXCEPT !.threads[th] =
                                 [at |-> IF r.raised THEN "ended" ELSE "while",
                                  msg |-> PyNone]])
  /\ UNCHANGED <<cash, positions, nb_trades, valuations, pending_orders, pc,
                 live, transmitted, twin>>

\* keyboard_listener, key 'p': Simulation.pause or Simulation.resume; the
\* request to the venue returns or raises (the listener thread then ends)
KeyP ==
  /\ pc = "simulation"
  /\ Val(sim).keyboard = "input"
  /\ Val(sim).simulation_running
  /\ \E answer \in {"returned", "raised"} :
       sim' = Some([Val(sim) EXCEPT !.simulation_paused = ~@,
                                    !.keyboard = IF answer = "raised" THEN "ended" ELSE @])
  /\ UNCHANGED simUnchanged

\* keyboard_listener, key 'q'
KeyQ ==
  /\ pc = "simulation"
  /\ Val(sim).keyboard = "input"
  /\ Val(sim).simulation_running
  /\ sim' = Some([Val(sim) EXCEPT !.simulation_running = FALSE, !.keyboard = "ended"])
  /\ UNCHANGED simUnchanged

NextSim == WsReceive \/ BotLoop \/ BotGet \/ BotFilter \/ BotOnTick \/ KeyP \/ KeyQ

SpecSim == InitSim /\ [][NextSim]_vars

\* the on_tick calls in progress
InFlight == { th \in DOMAIN Val(sim).threads : Val(sim).threads[th].at = "on_tick" }

\* a mapping whose type field is TICK
TypedTick(msg) == msg.t = "dict" /\ "type" \in DOMAIN msg.d /\ msg.d.type = "TICK"

\* the messages taken from the queue so far, in the order they were put, but
\* for one that the bot thread holds and has not filtered yet
Filtered(s) ==
  LET taken == Len(s.enqueued) - Len(s.price_queue)
      held == IF \E th \in DOMAIN s.threads : s.threads[th].at = "filter" THEN 1 ELSE 0
  IN SubSeq(s.enqueued, 1, taken - held)

\* C26: ticks are serialized.  At most one Bot.on_tick call is in flight; no
\* message is taken from the queue while a call is in flight; the queue holds
\* the messages not yet taken in the order on_message put them, and the
\* messages handed to on_tick are the ticks among those taken, in that order.
C26_TicksSerialized ==
  [][ LET s == Val(sim)
          t == Val(sim')
      IN /\ Cardinality(InFlight') <= 1
         /\ Len(t.price_queue) < Len(s.price_queue) => InFlight = {}
         /\ t.price_queue =
              SubSeq(t.enqueued, Len(t.enqueued) - Len(t.price_queue) + 1, Len(t.enqueued))
         /\ t.delivered = SelectSeq(Filtered(t), TypedTick) ]_vars

\* two different ticks were handed over in the order they were queued, the
\* second call is in flight and a third message waits in the queue
C26_Witness ==
  LET s == Val(sim)
  IN /\ Len(s.delivered) = 2
     /\ s.delivered[1] # s.delivered[2]
     /\ s.delivered = SubSeq(s.enqueued, 1, 2)
     /\ InFlight # {}
     /\ s.price_queue # <<>>

\* C27: keepalives and control messages do not reach the core.  A PING frame
\* is answered with PONG and nothing is put on the queue for it; every message
\* passed to Bot.on_tick is a mapping whose type field is TICK.
C27_OnlyTicksReachTheCore ==
  [][ LET s == Val(sim)
          t == Val(sim')
      IN /\ ( /\ Len(t.received) > Len(s.received)
              /\ t.received[Len(t.received)] = Ping )
            => /\ t.sent = Append(s.sent, "PONG")
               /\ t.price_queue = s.price_queue
               /\ t.enqueued = s.enqueued
         /\ \A i \in DOMAIN t.delivered : TypedTick(t.delivered[i])
         /\ InFlight' # {} => \A th \in InFlight' : TypedTick(t.threads[th].msg) ]_vars

\* a keepalive was answered, an ORDER event was taken from the queue and
\* dropped, and the only message handed to on_tick is the tick
C27_Witness ==
  LET s == Val(sim)
  IN /\ s.sent = <<"PONG">>
     /\ Len(s.enqueued) = 2
     /\ s.enqueued[1] = PyDict([type |-> "ORDER"])
     /\ s.price_queue = <<>>
     /\ Len(s.delivered) = 1
     /\ s.delivered[1] = s.enqueued[2]
     /\ tick = s.delivered[1].d

---------------------------------------------------------------------------
(* The valuation around the execution *)

---------------------------------------------------------------------------
(* Long-only replays *)

\* lines 207-240 on the histories of b (the tick's closes already appended):
\* the two target quantities of a call that reached the rebalance
DecidedTargets(b, t, noise) ==
  LET sM == Val(_rolling_vol_from_prices(b.prices.MERI, b.vol))
      sT == Val(_rolling_vol_from_prices(b.prices.TIS, b.vol))
      sig == Signal(b, Val(_momentum(b.prices.MERI, b.mom)), sM,
                    Val(_momentum(b.prices.TIS, b.mom)), sT, noise)
  IN [ MERI |-> IF sig.target_dir # 0 /\ sig.target_sym = "MERI"
                THEN TargetQty(b, sM, CloseOf(t, "MERI"), t.valuation, sig.target_dir)
                ELSE 0,
       TIS |-> IF sig.target_dir # 0 /\ sig.target_sym = "TIS"
               THEN TargetQty(b, sT, CloseOf(t, "TIS"), t.valuation, sig.target_dir)
               ELSE 0 ]

\* C29: long-only replays stay long.  With short = False, in a replay started
\* flat with the initial capital, every target quantity the engine computes
\* is >= 0, every position an order leads to is >= 0, and the ledger position
\* of each instrument is >= 0 after every period.
C29_LongOnlyNonNegative ==
  [][ (IsPeriod /\ ~bot.short) =>
        /\ \A sym \in Symbols : positions'[sym] >= 0
        /\ \A i \in DOMAIN pending_orders' :
             LET o == pending_orders'[i]
             IN positions[o.symbol]
                  + (IF o.action = "BUY" THEN o.quantity ELSE -o.quantity) >= 0
        /\ out'.at = "rebalance" =>
             \A noise \in BOOLEAN, sym \in Symbols :
               DecidedTargets(bot', tick', noise)[sym] >= 0 ]_vars

\* shorting is off, MERI's score is below the negative threshold and none is
\* above the threshold: the position held is sold down to the target 0
C29_Witness ==
  /\ ~bot.short
  /\ out.at = "rebalance"
  /\ ScoreBelowNeg(Val(_momentum(bot.prices.MERI, bot.mom)),
                   Val(_rolling_vol_from_prices(bot.prices.MERI, bot.vol)), bot.thresh)
  /\ DecidedTargets(bot, tick, TRUE) = [MERI |-> 0, TIS |-> 0]
  /\ pending_orders # <<>>
  /\ positions = [MERI |-> 0, TIS |-> 0]

---------------------------------------------------------------------------
(* Exceptions out of on_tick *)

\* C30: on_tick does not raise on a well-formed tick.  For every tick that
\* carries both close prices, a call that makes no request to the venue
\* returns normally, a first tick whose valuation is 0 or whose valuation and
\* cash are missing included.
C30_OnTickReturnsNormally ==
  [][ (~Malformed(tick') /\ out'.posted = <<>>) => ~out'.raised ]_vars

---------------------------------------------------------------------------
(* Pause *)

\* C31: pause is respected.  Under every interleaving of the keyboard and
\* bot threads, while simulation_paused is set (from Simulation.pause until
\* Simulation.resume clears it) no message is handed to Bot.on_tick.
C31_PauseRespected ==
  [][ (Val(sim).simulation_paused /\ Val(sim').simulation_paused)
      => Val(sim').delivered = Val(sim).delivered ]_vars

====
